---- MODULE Spec2Model ----
(***************************************************************************)
(* A model of the BusTub buffer pool manager (buffer_pool_manager.cpp)     *)
(* and its LRU-K replacer (lru_k_replacer.cpp).                            *)
(*                                                                         *)
(* Every public operation runs under the pool latch (std::lock_guard), so  *)
(* each is one atomic action.  The operations are written as operators     *)
(* over a record s holding the fields of the two objects; an action        *)
(* applies the operator to the current fields and commits the result.      *)
(* The record also carries events, the effects of the call in program      *)
(* order (disk writes, page-table updates, resets), which is how a claim   *)
(* about the order of effects inside one call is stated.                   *)
(* A page's PAGE_SIZE bytes are abstracted to one value of Bytes,          *)
(* ZeroPage being the all-zero page left by ResetMemory.                   *)
(***************************************************************************)
EXTENDS Integers, Sequences, FiniteSets, TLC

VARIABLES
    pages_,              \* Page[pool_size_]: page_id, pin_count, is_dirty, data
    page_table_,         \* unordered_map<page_id_t, frame_id_t>
    free_list_,          \* std::list<frame_id_t>
    next_page_id_,       \* AllocatePage counter
    node_store_,         \* replacer: unordered_map<frame_id_t, LRUKNode>
    curr_size_,          \* replacer: number of evictable nodes (as counted)
    current_timestamp_,  \* replacer: logical clock
    k_,                  \* replacer: K
    disk,                \* DiskManager: page id -> bytes
    guards,              \* BasicPageGuard objects of the clients: page_, is_dirty_
    content,             \* for each page id, the bytes its clients wrote last
    fetched_unallocated, \* history: fetch_page was given an id new_page had not returned
    aborted,             \* a BUSTUB_ASSERT failed: the process is gone
    threads,             \* client threads of one page: who holds a pin, calls that succeeded
    flusher,             \* the thread inside FlushPage: its position and locals
    root_                \* Trie::root_ of the current trie

vars == <<pages_, page_table_, free_list_, next_page_id_, node_store_,
          curr_size_, current_timestamp_, k_, disk, guards, content,
          fetched_unallocated, aborted, threads, flusher, root_>>

-----------------------------------------------------------------------------
(* Bounds of the model *)

pool_size_ == 2      \* frames of the pool (constructor argument pool_size)
MaxPages == 3        \* page ids 0 .. MaxPages - 1 exist: AllocatePage stops there
MaxTime == 4         \* the replacer's clock stops here
MaxTimeGuards == 7   \* the same, for the clients that work through page guards
MaxK == 3            \* the replacer alone is run with K in 1 .. MaxK
MaxTimeReplacer == 5 \* the clock's last value when the replacer is run alone
MaxTimeThreads == 10 \* the clock's last value for the threads that share one page
NumThreads == 3      \* client threads that pin and unpin one page
MaxKey == 2          \* trie keys have at most this many characters
NumGuards == 2       \* page guards alive at once

(* Program constants *)

replacer_k == 2
INVALID_PAGE_ID == -1
ULONG_MAX == 2147483647
nullptr == << >>
NoFrame == -1
ZeroPage == 0

Frames == 0 .. (pool_size_ - 1)
PageIds == 0 .. (MaxPages - 1)
Bytes == {ZeroPage, 1}
replacer_size_ == pool_size_
FrameArgs == -1 .. (replacer_size_ + 1)
Threads == 1 .. NumThreads
Guards == 1 .. NumGuards

-----------------------------------------------------------------------------
(* Small helpers on maps and sequences *)

MapErase(m, key) == [x \in (DOMAIN m) \ {key} |-> m[x]]

MapPut(m, key, val) == [x \in (DOMAIN m) \cup {key} |-> IF x = key THEN val ELSE m[x]]

Min2(a, b) == IF a < b THEN a ELSE b

RECURSIVE SetToSeq(_)
SetToSeq(S) ==
    IF S = {} THEN <<>>
    ELSE LET m == CHOOSE x \in S : \A y \in S : x <= y
         IN <<m>> \o SetToSeq(S \ {m})

Log(s, e) == [s EXCEPT !.events = Append(@, e)]

-----------------------------------------------------------------------------
(* DiskManager *)

WritePage(s, p, d) == Log([s EXCEPT !.disk[p] = d], <<"WritePage", p, d>>)

ReadPage(s, p) == s.disk[p]

-----------------------------------------------------------------------------
(* LRUKNode *)

LRUKNode == [history_ |-> <<>>, is_evictable_ |-> FALSE]

NodeRecordAccess(node, t) ==
    LET h == <<t>> \o node.history_
    IN [node EXCEPT !.history_ = SubSeq(h, 1, Min2(Len(h), k_))]

GetKDistance(node, t) ==
    IF Len(node.history_) >= k_ THEN t - node.history_[k_] ELSE ULONG_MAX

Front(node) == node.history_[1]

-----------------------------------------------------------------------------
(* LRUKReplacer *)

(* Mutant: the scan keeps the smaller K-distance *)
RECURSIVE EvictScan_Smallest(_, _, _, _)
EvictScan_Smallest(store, order, t, acc) ==
    IF order = <<>> THEN acc
    ELSE LET f == Head(order)
             node == store[f]
             tmp == GetKDistance(node, t)
             take == [is_first |-> FALSE, val |-> tmp, frame_id |-> f, curr_node |-> node]
             nxt == IF ~node.is_evictable_ THEN acc
                    ELSE IF acc.is_first THEN take
                    ELSE IF tmp < acc.val THEN take
                    ELSE acc
         IN EvictScan_Smallest(store, Tail(order), t, nxt)

RECURSIVE EvictScan(_, _, _, _)
EvictScan(store, order, t, acc) ==
    IF order = <<>> THEN acc
    ELSE LET f == Head(order)
             node == store[f]
             tmp == GetKDistance(node, t)
             take == [is_first |-> FALSE, val |-> tmp, frame_id |-> f, curr_node |-> node]
             nxt == IF ~node.is_evictable_ THEN acc
                    ELSE IF acc.is_first THEN take
                    ELSE IF (tmp > acc.val)
                            \/ (tmp = acc.val /\ acc.val = ULONG_MAX
                                /\ Front(node) < Front(acc.curr_node))
                         THEN take
                         ELSE acc
         IN EvictScan(store, Tail(order), t, nxt)

(* Mutant: the scan takes every node, evictable or not *)
RECURSIVE EvictScanAll(_, _, _, _)
EvictScanAll(store, order, t, acc) ==
    IF order = <<>> THEN acc
    ELSE LET f == Head(order)
             node == store[f]
             tmp == GetKDistance(node, t)
             take == [is_first |-> FALSE, val |-> tmp, frame_id |-> f, curr_node |-> node]
             nxt == IF acc.is_first THEN take
                    ELSE IF (tmp > acc.val)
                            \/ (tmp = acc.val /\ acc.val = ULONG_MAX
                                /\ Front(node) < Front(acc.curr_node))
                         THEN take
                         ELSE acc
         IN EvictScanAll(store, Tail(order), t, nxt)

Evict_AnyNode(s) ==
    LET t == s.current_timestamp
        s1 == [s EXCEPT !.current_timestamp = @ + 1]
    IN IF s.curr_size = 0
       THEN [ok |-> FALSE, frame_id |-> NoFrame, s |-> s1]
       ELSE LET acc == EvictScanAll(s.node_store, SetToSeq(DOMAIN s.node_store), t,
                                    [is_first |-> TRUE, val |-> 0, frame_id |-> NoFrame,
                                     curr_node |-> LRUKNode])
            IN [ok |-> TRUE, frame_id |-> acc.frame_id,
                s |-> [s1 EXCEPT !.node_store = MapErase(@, acc.frame_id),
                                 !.curr_size = @ - 1]]

Evict(s) ==
    LET t == s.current_timestamp
        s1 == [s EXCEPT !.current_timestamp = @ + 1]
    IN IF s.curr_size = 0
       THEN [ok |-> FALSE, frame_id |-> NoFrame, s |-> s1]
       ELSE LET acc == EvictScan(s.node_store, SetToSeq(DOMAIN s.node_store), t,
                                 [is_first |-> TRUE, val |-> 0, frame_id |-> NoFrame,
                                  curr_node |-> LRUKNode])
            IN [ok |-> TRUE, frame_id |-> acc.frame_id,
                s |-> [s1 EXCEPT !.node_store = MapErase(@, acc.frame_id),
                                 !.curr_size = @ - 1]]

RecordAccess(s, f) ==
    LET t == s.current_timestamp
        s1 == [s EXCEPT !.current_timestamp = @ + 1]
    IN IF ~((0 <= f) /\ (f <= replacer_size_))
       THEN [s EXCEPT !.aborted = TRUE]
       ELSE IF f \notin DOMAIN s.node_store
       THEN [s1 EXCEPT !.node_store = MapPut(@, f, NodeRecordAccess(LRUKNode, t))]
       ELSE [s1 EXCEPT !.node_store[f] = NodeRecordAccess(@, t)]

SetEvictable(s, f, set_evictable) ==
    IF f \notin DOMAIN s.node_store THEN s
    ELSE IF s.node_store[f].is_evictable_ # set_evictable
    THEN [s EXCEPT !.node_store[f].is_evictable_ = set_evictable,
                   !.curr_size = IF set_evictable THEN @ + 1 ELSE @ - 1]
    ELSE s

(* Mutant: the node is erased and the counter always decremented *)
Remove_AlwaysDecrements(s, f) ==
    IF f \in DOMAIN s.node_store
    THEN [s EXCEPT !.curr_size = @ - 1, !.node_store = MapErase(@, f)]
    ELSE s

Remove(s, f) ==
    IF f \in DOMAIN s.node_store
    THEN [s EXCEPT !.curr_size = @ + (IF s.node_store[f].is_evictable_ THEN -1 ELSE 0),
                   !.node_store = MapErase(@, f)]
    ELSE s

Size(s) == s.curr_size

-----------------------------------------------------------------------------
(* BufferPoolManager: private helpers *)

GetPage(s, p) == IF p \in DOMAIN s.page_table THEN s.page_table[p] ELSE NoFrame

(* Mutant: the replacer is not asked when the free list is empty *)
GetAvailableFrameId_FreeListOnly(s) ==
    IF s.free_list # <<>>
    THEN [ok |-> TRUE, frame_id |-> Head(s.free_list), from_free |-> TRUE,
          s |-> [s EXCEPT !.free_list = Tail(@)]]
    ELSE [ok |-> FALSE, frame_id |-> NoFrame, from_free |-> FALSE, s |-> s]

(* Mutant: the replacer is asked before the free list *)
GetAvailableFrameId_ReplacerFirst(s) ==
    IF s.curr_size > 0
    THEN LET r == Evict(s)
         IN [ok |-> r.ok, frame_id |-> r.frame_id, from_free |-> FALSE, s |-> r.s]
    ELSE IF s.free_list # <<>>
    THEN [ok |-> TRUE, frame_id |-> Head(s.free_list), from_free |-> TRUE,
          s |-> [s EXCEPT !.free_list = Tail(@)]]
    ELSE [ok |-> FALSE, frame_id |-> NoFrame, from_free |-> FALSE, s |-> s]

GetAvailableFrameId(s) ==
    IF s.free_list # <<>>
    THEN [ok |-> TRUE, frame_id |-> Head(s.free_list), from_free |-> TRUE,
          s |-> [s EXCEPT !.free_list = Tail(@)]]
    ELSE LET r == Evict(s)
         IN [ok |-> r.ok, frame_id |-> r.frame_id, from_free |-> FALSE, s |-> r.s]

(* Mutant: the pinned frame is left evictable *)
PinPageToFrame_KeepsEvictable(s, f) ==
    LET s1 == Log([s EXCEPT !.page_table = MapPut(@, s.pages[f].page_id, f)],
                  <<"Insert", s.pages[f].page_id, f>>)
        s2 == [s1 EXCEPT !.pages[f].pin_count = @ + 1]
    IN RecordAccess(s2, f)

PinPageToFrame(s, f) ==
    LET s1 == Log([s EXCEPT !.page_table = MapPut(@, s.pages[f].page_id, f)],
                  <<"Insert", s.pages[f].page_id, f>>)
        s2 == [s1 EXCEPT !.pages[f].pin_count = @ + 1]
        s3 == RecordAccess(s2, f)
    IN SetEvictable(s3, f, FALSE)

WriteBackIfDirty(s, f) ==
    IF s.pages[f].is_dirty
    THEN WritePage(s, s.pages[f].page_id, s.pages[f].data)
    ELSE s

(* Mutant: the page table keeps the entry of the page that leaves the frame *)
EraseMapping_Skipped(s, f) == s

EraseMapping(s, f) ==
    Log([s EXCEPT !.page_table = MapErase(@, s.pages[f].page_id)],
        <<"Erase", s.pages[f].page_id, f>>)

NewPageHelper(s, f) ==
    LET p == s.next_page_id
        s1 == [s EXCEPT !.next_page_id = @ + 1]
        s2 == Log([s1 EXCEPT !.pages[f].data = ZeroPage], <<"ResetMemory", f>>)
        s3 == Log([s2 EXCEPT !.pages[f].page_id = p,
                             !.pages[f].pin_count = 0,
                             !.pages[f].is_dirty = FALSE], <<"SetPageId", p, f>>)
    IN [page_id |-> p, s |-> PinPageToFrame(s3, f)]

-----------------------------------------------------------------------------
(* BufferPoolManager: public operations *)

(* Mutant: the victim is written back after its frame was reset for the new page *)
NewPage_WriteBackAfterReset(s) ==
    LET a == GetAvailableFrameId(s)
    IN IF ~a.ok
       THEN [ret |-> FALSE, page_id |-> INVALID_PAGE_ID, frame |-> NoFrame,
             acquired |-> NoFrame, from_free |-> FALSE, s |-> a.s]
       ELSE LET f == a.frame_id
                old == a.s.pages[f]
                s2 == EraseMapping(a.s, f)
                h == NewPageHelper(s2, f)
                s3 == IF old.is_dirty
                      THEN WritePage(h.s, old.page_id, h.s.pages[f].data)
                      ELSE h.s
            IN [ret |-> TRUE, page_id |-> h.page_id, frame |-> f,
                acquired |-> f, from_free |-> a.from_free, s |-> s3]

NewPage(s) ==
    LET a == GetAvailableFrameId(s)
    IN IF ~a.ok
       THEN [ret |-> FALSE, page_id |-> INVALID_PAGE_ID, frame |-> NoFrame,
             acquired |-> NoFrame, from_free |-> FALSE, s |-> a.s]
       ELSE LET f == a.frame_id
                s1 == WriteBackIfDirty(a.s, f)
                s2 == EraseMapping(s1, f)
                h == NewPageHelper(s2, f)
            IN [ret |-> TRUE, page_id |-> h.page_id, frame |-> f,
                acquired |-> f, from_free |-> a.from_free, s |-> h.s]

DoFetchPage(s, p) ==
    IF p = INVALID_PAGE_ID
    THEN [ret |-> FALSE, page_id |-> p, frame |-> NoFrame,
          acquired |-> NoFrame, from_free |-> FALSE, s |-> s]
    ELSE IF p \in DOMAIN s.page_table
    THEN LET f == s.page_table[p]
             s1 == [s EXCEPT !.pages[f].is_dirty = TRUE]
         IN [ret |-> TRUE, page_id |-> p, frame |-> f,
             acquired |-> NoFrame, from_free |-> FALSE, s |-> PinPageToFrame(s1, f)]
    ELSE LET a == GetAvailableFrameId(s)
         IN IF ~a.ok
            THEN [ret |-> FALSE, page_id |-> p, frame |-> NoFrame,
                  acquired |-> NoFrame, from_free |-> FALSE, s |-> a.s]
            ELSE LET f == a.frame_id
                     s1 == WriteBackIfDirty(a.s, f)
                     s2 == EraseMapping(s1, f)
                     s3 == Log([s2 EXCEPT !.pages[f].data = ReadPage(s2, p)],
                               <<"ReadPage", p, f>>)
                     s4 == Log([s3 EXCEPT !.pages[f].page_id = p,
                                          !.pages[f].pin_count = 0,
                                          !.pages[f].is_dirty = FALSE],
                               <<"SetPageId", p, f>>)
                 IN [ret |-> TRUE, page_id |-> p, frame |-> f,
                     acquired |-> f, from_free |-> a.from_free,
                     s |-> PinPageToFrame(s4, f)]

(* Mutant: the call succeeds but the pin stays *)
UnpinPage_KeepsPin(s, p, is_dirty) ==
    LET f == GetPage(s, p)
    IN IF f = NoFrame THEN [ret |-> FALSE, s |-> s]
       ELSE [ret |-> TRUE, s |-> [s EXCEPT !.pages[f].is_dirty = is_dirty]]

UnpinPage(s, p, is_dirty) ==
    LET f == GetPage(s, p)
    IN IF f = NoFrame THEN [ret |-> FALSE, s |-> s]
       ELSE LET s1 == [s EXCEPT !.pages[f].is_dirty = is_dirty]
            IN IF s1.pages[f].pin_count <= 0 THEN [ret |-> FALSE, s |-> s1]
               ELSE LET s2 == [s1 EXCEPT !.pages[f].pin_count = @ - 1]
                    IN [ret |-> TRUE,
                        s |-> IF s2.pages[f].pin_count = 0
                              THEN SetEvictable(s2, s2.page_table[p], TRUE)
                              ELSE s2]

FlushPage(s, p) ==
    IF p = INVALID_PAGE_ID \/ p >= s.next_page_id THEN [ret |-> FALSE, s |-> s]
    ELSE LET f == GetPage(s, p)
         IN IF f = NoFrame THEN [ret |-> FALSE, s |-> s]
            ELSE LET s1 == WritePage(s, p, s.pages[f].data)
                 IN [ret |-> TRUE, s |-> [s1 EXCEPT !.pages[f].is_dirty = FALSE]]

RECURSIVE FlushFrames(_, _)
FlushFrames(s, frame_id) ==
    IF frame_id >= pool_size_ THEN s
    ELSE LET p == s.pages[frame_id].page_id
         IN IF p # INVALID_PAGE_ID /\ s.pages[frame_id].is_dirty
            THEN FlushFrames(FlushPage(s, p).s, frame_id + 1)
            ELSE FlushFrames(s, frame_id + 1)

FlushAllPages(s) == FlushFrames(s, 0)

(* Mutant: a pinned page is deleted like an unpinned one *)
DeletePage_IgnoresPin(s, p) ==
    IF p \notin DOMAIN s.page_table THEN [ret |-> TRUE, frame |-> NoFrame, s |-> s]
    ELSE LET f == s.page_table[p]
             s1 == Log([s EXCEPT !.page_table = MapErase(@, p)], <<"Erase", p, f>>)
             s2 == [s1 EXCEPT !.free_list = Append(@, f)]
             s3 == Log([s2 EXCEPT !.pages[f].data = ZeroPage], <<"ResetMemory", f>>)
             s4 == [s3 EXCEPT !.pages[f].pin_count = 0,
                              !.pages[f].page_id = INVALID_PAGE_ID,
                              !.pages[f].is_dirty = FALSE]
         IN [ret |-> TRUE, frame |-> f, s |-> s4]

(* Mutant: the freed frame keeps the id of the deleted page *)
DeletePage_KeepsPageId(s, p) ==
    IF p \notin DOMAIN s.page_table THEN [ret |-> TRUE, frame |-> NoFrame, s |-> s]
    ELSE LET f == s.page_table[p]
         IN IF s.pages[f].pin_count > 0 THEN [ret |-> FALSE, frame |-> f, s |-> s]
            ELSE LET s1 == Log([s EXCEPT !.page_table = MapErase(@, p)], <<"Erase", p, f>>)
                     s2 == [s1 EXCEPT !.free_list = Append(@, f)]
                     s3 == Log([s2 EXCEPT !.pages[f].data = ZeroPage], <<"ResetMemory", f>>)
                     s4 == [s3 EXCEPT !.pages[f].pin_count = 0,
                                      !.pages[f].is_dirty = FALSE]
                 IN [ret |-> TRUE, frame |-> f, s |-> s4]

DeletePage(s, p) ==
    IF p \notin DOMAIN s.page_table THEN [ret |-> TRUE, frame |-> NoFrame, s |-> s]
    ELSE LET f == s.page_table[p]
         IN IF s.pages[f].pin_count > 0 THEN [ret |-> FALSE, frame |-> f, s |-> s]
            ELSE LET s1 == Log([s EXCEPT !.page_table = MapErase(@, p)], <<"Erase", p, f>>)
                     s2 == [s1 EXCEPT !.free_list = Append(@, f)]
                     s3 == Log([s2 EXCEPT !.pages[f].data = ZeroPage], <<"ResetMemory", f>>)
                     s4 == [s3 EXCEPT !.pages[f].pin_count = 0,
                                      !.pages[f].page_id = INVALID_PAGE_ID,
                                      !.pages[f].is_dirty = FALSE]
                 IN [ret |-> TRUE, frame |-> f, s |-> s4]

-----------------------------------------------------------------------------
(* The state machine *)

bpm ==
    [pages |-> pages_, page_table |-> page_table_, free_list |-> free_list_,
     next_page_id |-> next_page_id_, node_store |-> node_store_,
     curr_size |-> curr_size_, current_timestamp |-> current_timestamp_,
     disk |-> disk, aborted |-> aborted, events |-> <<>>]

Commit(s) ==
    /\ pages_' = s.pages
    /\ page_table_' = s.page_table
    /\ free_list_' = s.free_list
    /\ next_page_id_' = s.next_page_id
    /\ node_store_' = s.node_store
    /\ curr_size_' = s.curr_size
    /\ current_timestamp_' = s.current_timestamp
    /\ disk' = s.disk
    /\ aborted' = s.aborted
    /\ k_' = k_

(* What a call leaves behind, the log of its effects apart *)
Fields(s) == [s EXCEPT !.events = <<>>]

InBounds(s, maxtime) ==
    /\ s.next_page_id <= MaxPages
    /\ s.current_timestamp <= maxtime

(* No client thread holds a pin and none has called yet *)
NoThreads == [holds |-> [t \in Threads |-> FALSE], fetches |-> 0, unpins |-> 0]

(* No thread is inside FlushPage *)
NoFlush == [pc |-> "idle", page_id |-> INVALID_PAGE_ID, page |-> NoFrame]

InitK(k) ==
    /\ pages_ = [f \in Frames |-> [page_id |-> INVALID_PAGE_ID, pin_count |-> 0,
                                   is_dirty |-> FALSE, data |-> ZeroPage]]
    /\ page_table_ = << >>
    /\ free_list_ = SetToSeq(Frames)
    /\ next_page_id_ = 0
    /\ node_store_ = << >>
    /\ curr_size_ = 0
    /\ current_timestamp_ = 0
    /\ k_ = k
    /\ disk = [p \in PageIds |-> ZeroPage]
    /\ guards = [g \in Guards |-> [page_ |-> NoFrame, is_dirty_ |-> FALSE]]
    /\ content = [p \in PageIds |-> ZeroPage]
    /\ fetched_unallocated = FALSE
    /\ aborted = FALSE
    /\ threads = NoThreads
    /\ flusher = NoFlush
    /\ root_ = nullptr

Init == InitK(replacer_k)

DoNewPage ==
    LET r == NewPage(bpm)
    IN /\ InBounds(r.s, MaxTime)
       /\ Commit(r.s)
       /\ UNCHANGED <<guards, content, fetched_unallocated, threads, flusher, root_>>

DoFetch(p) ==
    LET r == DoFetchPage(bpm, p)
    IN /\ InBounds(r.s, MaxTime)
       /\ Commit(r.s)
       /\ fetched_unallocated' = (fetched_unallocated \/ p >= next_page_id_)
       /\ UNCHANGED <<guards, content, threads, flusher, root_>>

DoUnpin(p, d) ==
    /\ Commit(UnpinPage(bpm, p, d).s)
    /\ UNCHANGED <<guards, content, fetched_unallocated, threads, flusher, root_>>

DoFlush(p) ==
    /\ Commit(FlushPage(bpm, p).s)
    /\ UNCHANGED <<guards, content, fetched_unallocated, threads, flusher, root_>>

DoFlushAll ==
    /\ Commit(FlushAllPages(bpm))
    /\ UNCHANGED <<guards, content, fetched_unallocated, threads, flusher, root_>>

DoDelete(p) ==
    /\ Commit(DeletePage(bpm, p).s)
    /\ UNCHANGED <<guards, content, fetched_unallocated, threads, flusher, root_>>

AnyPageId == PageIds \cup {INVALID_PAGE_ID}

(* The calls of the public interface, with any arguments *)
Next ==
    \/ DoNewPage
    \/ \E p \in AnyPageId : DoFetch(p)
    \/ \E p \in AnyPageId, d \in BOOLEAN : DoUnpin(p, d)
    \/ \E p \in AnyPageId : DoFlush(p)
    \/ DoFlushAll
    \/ \E p \in AnyPageId : DoDelete(p)

Spec == Init /\ [][Next]_vars

(* The same calls, fetch_page being given only ids that new_page returned *)
DoFetchAllocated(p) == p < next_page_id_ /\ DoFetch(p)

NextAlloc ==
    \/ DoNewPage
    \/ \E p \in AnyPageId : DoFetchAllocated(p)
    \/ \E p \in AnyPageId, d \in BOOLEAN : DoUnpin(p, d)
    \/ \E p \in AnyPageId : DoFlush(p)
    \/ DoFlushAll
    \/ \E p \in AnyPageId : DoDelete(p)

SpecAlloc == Init /\ [][NextAlloc]_vars

(* A client that holds a pin on frame f writes bytes b through Page::GetData *)
DoWrite(f, b) ==
    /\ pages_[f].pin_count > 0
    /\ pages_' = [pages_ EXCEPT ![f].data = b]
    /\ UNCHANGED <<page_table_, free_list_, next_page_id_, node_store_,
                   curr_size_, current_timestamp_, k_, disk, guards, content,
                   fetched_unallocated, aborted, threads, flusher, root_>>

NextData ==
    \/ DoNewPage
    \/ \E p \in AnyPageId : DoFetch(p)
    \/ \E p \in AnyPageId, d \in BOOLEAN : DoUnpin(p, d)
    \/ \E p \in AnyPageId : DoFlush(p)
    \/ DoFlushAll
    \/ \E p \in AnyPageId : DoDelete(p)
    \/ \E f \in Frames, b \in Bytes : DoWrite(f, b)

SpecData == Init /\ [][NextData]_vars

-----------------------------------------------------------------------------
(* The copy-on-write trie (trie.cpp).  A TrieNode with everything below it *)
(* is a function from the paths that lead to its descendants (sequences of *)
(* characters, << >> for the node itself) to the value stored there,       *)
(* NoValue for a node with is_value_node_ false; a null pointer is the     *)
(* function with no path at all.                                           *)

Chars == {"a", "b"}
Values == {1, 2}
NoValue == 0
Keys == UNION {[1 .. n -> Chars] : n \in 0 .. MaxKey}

(* node->children_.count(c) *)
HasChild(node, c) == <<c>> \in DOMAIN node

(* node->children_.at(c) *)
Child(node, c) ==
    [q \in {Tail(r) : r \in {x \in DOMAIN node : x # << >> /\ x[1] = c}} |->
        node[<<c>> \o q]]

(* node->children_.empty() *)
ChildrenEmpty(node) == \A c \in Chars : ~HasChild(node, c)

(* node->children_.erase(c) *)
EraseChild(node, c) ==
    [q \in {x \in DOMAIN node : x = << >> \/ x[1] # c} |-> node[q]]

(* node->children_[c] = child *)
SetChild(node, c, child) ==
    [q \in {x \in DOMAIN node : x = << >> \/ x[1] # c}
            \cup {<<c>> \o y : y \in DOMAIN child} |->
        IF q # << >> /\ q[1] = c THEN child[Tail(q)] ELSE node[q]]

(* std::make_shared<TrieNode>(children): the children, no value *)
TrieNode(children) == [children EXCEPT ![<< >>] = NoValue]

(* std::make_shared<TrieNode>() *)
EmptyTrieNode == [q \in {<< >>} |-> NoValue]

(* std::make_shared<TrieNodeWithValue<T>>(children, value) *)
TrieNodeWithValue(children, value) == [children EXCEPT ![<< >>] = value]

(* TrieNode::Clone: the same children and, for a value node, the same value *)
Clone(node) == node

RECURSIVE Search(_, _, _)
Search(node, key, index) ==
    IF index = Len(key)
    THEN IF node[<< >>] # NoValue THEN node ELSE nullptr
    ELSE IF ~HasChild(node, key[index + 1]) THEN nullptr
    ELSE Search(Child(node, key[index + 1]), key, index + 1)

CopyCreateNewNode(old_node, has_value, value) ==
    IF old_node = nullptr /\ has_value THEN TrieNodeWithValue(EmptyTrieNode, value)
    ELSE IF old_node = nullptr /\ ~has_value THEN EmptyTrieNode
    ELSE IF old_node # nullptr /\ has_value THEN TrieNodeWithValue(old_node, value)
    ELSE Clone(old_node)

RECURSIVE Insert(_, _, _, _)
Insert(node, key, index, value) ==
    IF index = Len(key) THEN CopyCreateNewNode(node, TRUE, value)
    ELSE LET c == key[index + 1]
             child == Insert(IF node = nullptr \/ ~HasChild(node, c)
                             THEN nullptr ELSE Child(node, c),
                             key, index + 1, value)
             new_node == CopyCreateNewNode(node, FALSE, value)
         IN SetChild(new_node, c, child)

RECURSIVE RemoveRecursive(_, _, _)
RemoveRecursive(node, key, index) ==
    IF node = nullptr THEN nullptr
    ELSE IF index = Len(key)
    THEN IF ChildrenEmpty(node) THEN nullptr ELSE TrieNode(node)
    ELSE LET c == key[index + 1]
             child == RemoveRecursive(IF ~HasChild(node, c) THEN nullptr ELSE Child(node, c),
                                      key, index + 1)
             new_node == Clone(node)
         IN IF child # nullptr THEN SetChild(new_node, c, child)
            ELSE EraseChild(new_node, c)

(* Trie::Get: the value, NoValue for the null result *)
Get(root, key) ==
    IF root = nullptr THEN NoValue
    ELSE LET node == Search(root, key, 0)
         IN IF node = nullptr THEN NoValue ELSE node[<< >>]

(* Trie::Put: the root of the trie returned *)
Put(root, key, value) == Insert(root, key, 0, value)

(* Trie::Remove: the root of the trie returned *)
TrieRemove(root, key) == RemoveRecursive(root, key, 0)

(* trie = trie.Put(key, value) *)
DoPut(key, value) ==
    /\ root_' = Put(root_, key, value)
    /\ Commit(bpm)
    /\ UNCHANGED <<guards, content, fetched_unallocated, threads, flusher>>

(* trie = trie.Remove(key) *)
DoRemove(key) ==
    /\ root_' = TrieRemove(root_, key)
    /\ Commit(bpm)
    /\ UNCHANGED <<guards, content, fetched_unallocated, threads, flusher>>

NextTrie ==
    \/ \E key \in Keys, value \in Values : DoPut(key, value)
    \/ \E key \in Keys : DoRemove(key)

SpecTrie == Init /\ [][NextTrie]_vars

-----------------------------------------------------------------------------
(* The replacer on its own: any calls of its interface, for each K.  A     *)
(* failed BUSTUB_ASSERT ends the process, so nothing is called after it.   *)

InitReplacer == \E k \in 1 .. MaxK : InitK(k)

Rest == <<guards, content, fetched_unallocated, threads, flusher, root_>>

RRecordAccess(f) ==
    LET s == RecordAccess(bpm, f)
    IN /\ ~aborted
       /\ InBounds(s, MaxTimeReplacer)
       /\ Commit(s)
       /\ UNCHANGED Rest

RSetEvictable(f, set_evictable) ==
    /\ ~aborted
    /\ Commit(SetEvictable(bpm, f, set_evictable))
    /\ UNCHANGED Rest

RRemove(f) ==
    /\ ~aborted
    /\ Commit(Remove(bpm, f))
    /\ UNCHANGED Rest

REvict ==
    LET r == Evict(bpm)
    IN /\ ~aborted
       /\ InBounds(r.s, MaxTimeReplacer)
       /\ Commit(r.s)
       /\ UNCHANGED Rest

NextReplacer ==
    \/ \E f \in FrameArgs : RRecordAccess(f)
    \/ \E f \in FrameArgs, b \in BOOLEAN : RSetEvictable(f, b)
    \/ \E f \in FrameArgs : RRemove(f)
    \/ REvict

SpecReplacer == InitReplacer /\ [][NextReplacer]_vars

-----------------------------------------------------------------------------
(* Threads that share one page.  FetchPage, NewPage and UnpinPage hold the *)
(* pool latch from their first statement to their return, so each call of  *)
(* a thread is one step and the steps of the threads interleave freely.    *)
(* threads.fetches counts the pins that were handed out (a page returned   *)
(* by NewPage or FetchPage), threads.unpins the UnpinPage calls that       *)
(* returned true.                                                          *)

SharedPage == 0

(* Thread t creates the shared page and holds the first pin on it *)
TNewPage(t) ==
    LET r == NewPage(bpm)
    IN /\ next_page_id_ = SharedPage
       /\ ~threads.holds[t]
       /\ InBounds(r.s, MaxTimeThreads)
       /\ Commit(r.s)
       /\ threads' = IF r.ret
                      THEN [threads EXCEPT !.holds[t] = TRUE, !.fetches = @ + 1]
                      ELSE threads
       /\ UNCHANGED <<guards, content, fetched_unallocated, flusher, root_>>

(* Thread t fetches the shared page *)
TFetch(t) ==
    LET r == DoFetchPage(bpm, SharedPage)
    IN /\ SharedPage < next_page_id_
       /\ ~threads.holds[t]
       /\ InBounds(r.s, MaxTimeThreads)
       /\ Commit(r.s)
       /\ threads' = IF r.ret
                      THEN [threads EXCEPT !.holds[t] = TRUE, !.fetches = @ + 1]
                      ELSE threads
       /\ UNCHANGED <<guards, content, fetched_unallocated, flusher, root_>>

(* Thread t gives its pin back *)
TUnpin(t, is_dirty) ==
    LET r == UnpinPage(bpm, SharedPage, is_dirty)
    IN /\ threads.holds[t]
       /\ Commit(r.s)
       /\ threads' = [threads EXCEPT !.holds[t] = FALSE,
                                      !.unpins = IF r.ret THEN @ + 1 ELSE @]
       /\ UNCHANGED <<guards, content, fetched_unallocated, flusher, root_>>

NextThreads ==
    \/ \E t \in Threads : TNewPage(t)
    \/ \E t \in Threads : TFetch(t)
    \/ \E t \in Threads, d \in BOOLEAN : TUnpin(t, d)

SpecThreads == Init /\ [][NextThreads]_vars

-----------------------------------------------------------------------------
(* FlushPage called by one thread while others call the latched            *)
(* operations.  FlushPage takes no latch, so its statements are steps of   *)
(* their own: the checks and GetPage (lines 100-106), WritePage (107) and  *)
(* the assignment to is_dirty_ (108); flusher.page is the Page * it holds. *)

FlushBegin(p) ==
    /\ flusher.pc = "idle"
    /\ flusher' = IF p = INVALID_PAGE_ID \/ p >= next_page_id_ \/ GetPage(bpm, p) = NoFrame
                  THEN NoFlush
                  ELSE [pc |-> "write", page_id |-> p, page |-> GetPage(bpm, p)]
    /\ Commit(bpm)
    /\ UNCHANGED <<guards, content, fetched_unallocated, threads, root_>>

FlushWrite ==
    /\ flusher.pc = "write"
    /\ Commit(WritePage(bpm, flusher.page_id, pages_[flusher.page].data))
    /\ flusher' = [flusher EXCEPT !.pc = "clear"]
    /\ UNCHANGED <<guards, content, fetched_unallocated, threads, root_>>

FlushClear ==
    /\ flusher.pc = "clear"
    /\ Commit([bpm EXCEPT !.pages[flusher.page].is_dirty = FALSE])
    /\ flusher' = NoFlush
    /\ UNCHANGED <<guards, content, fetched_unallocated, threads, root_>>

NextFlush ==
    \/ DoNewPage
    \/ \E p \in AnyPageId : DoFetchAllocated(p)
    \/ \E p \in AnyPageId, d \in BOOLEAN : DoUnpin(p, d)
    \/ \E p \in AnyPageId : DoDelete(p)
    \/ \E f \in Frames, b \in Bytes : DoWrite(f, b)
    \/ \E p \in AnyPageId : FlushBegin(p)
    \/ FlushWrite
    \/ FlushClear

SpecFlush == Init /\ [][NextFlush]_vars

-----------------------------------------------------------------------------
(* Clients that work through page guards.  A guard owns at most one pinned *)
(* frame (page_) and remembers whether its owner asked for the mutable     *)
(* bytes (is_dirty_); dropping it unpins the page with that flag.          *)

NoGuard == [page_ |-> NoFrame, is_dirty_ |-> FALSE]

(* BufferPoolManager::NewPageGuarded into the empty guard g *)
GNewPage(g) ==
    LET r == NewPage(bpm)
    IN /\ guards[g] = NoGuard
       /\ InBounds(r.s, MaxTimeGuards)
       /\ Commit(r.s)
       /\ guards' = [guards EXCEPT ![g] = [page_ |-> r.frame, is_dirty_ |-> FALSE]]
       /\ UNCHANGED <<content, fetched_unallocated, threads, flusher, root_>>

(* BufferPoolManager::FetchPageBasic of an allocated page into the empty guard g *)
GFetch(g, p) ==
    LET r == DoFetchPage(bpm, p)
    IN /\ guards[g] = NoGuard
       /\ p < next_page_id_
       /\ InBounds(r.s, MaxTimeGuards)
       /\ Commit(r.s)
       /\ guards' = [guards EXCEPT ![g] = [page_ |-> r.frame, is_dirty_ |-> FALSE]]
       /\ UNCHANGED <<content, fetched_unallocated, threads, flusher, root_>>

(* BasicPageGuard::GetDataMut, and the owner writes bytes b *)
GWrite(g, b) ==
    LET f == guards[g].page_
    IN /\ f # NoFrame
       /\ pages_' = [pages_ EXCEPT ![f].data = b]
       /\ guards' = [guards EXCEPT ![g].is_dirty_ = TRUE]
       /\ content' = [content EXCEPT ![pages_[f].page_id] = b]
       /\ UNCHANGED <<page_table_, free_list_, next_page_id_, node_store_,
                      curr_size_, current_timestamp_, k_, disk,
                      fetched_unallocated, aborted, threads, flusher, root_>>

(* BasicPageGuard::Drop, explicit or at scope exit: a guard that owns      *)
(* nothing (dropped, moved from, failed fetch) does nothing                *)
GDrop(g) ==
    LET f == guards[g].page_
    IN /\ IF f # NoFrame
          THEN Commit(UnpinPage(bpm, pages_[f].page_id, guards[g].is_dirty_).s)
          ELSE Commit(bpm)
       /\ guards' = [guards EXCEPT ![g] = NoGuard]
       /\ UNCHANGED <<content, fetched_unallocated, threads, flusher, root_>>

(* Move-assignment g = std::move(h): g drops what it owns, then takes h's  *)
(* page and flag; h owns nothing afterwards.  With g empty this is also    *)
(* the move constructor.                                                   *)
GMove(g, h) ==
    LET f == guards[g].page_
    IN /\ g # h
       /\ IF f # NoFrame
          THEN Commit(UnpinPage(bpm, pages_[f].page_id, guards[g].is_dirty_).s)
          ELSE Commit(bpm)
       /\ guards' = [guards EXCEPT ![g] = guards[h], ![h] = NoGuard]
       /\ UNCHANGED <<content, fetched_unallocated, threads, flusher, root_>>

NextGuards ==
    \/ \E g \in Guards : GNewPage(g)
    \/ \E g \in Guards, p \in PageIds : GFetch(g, p)
    \/ \E g \in Guards, b \in Bytes : GWrite(g, b)
    \/ \E g \in Guards : GDrop(g)
    \/ \E g, h \in Guards : GMove(g, h)

SpecGuards == Init /\ [][NextGuards]_vars

-----------------------------------------------------------------------------
(* Properties *)

Pinned(f) == pages_[f].pin_count > 0

AllPinned == \A f \in Frames : Pinned(f)

(* C1. Eviction safety: in every state the pool can reach, the frame that  *)
(* new_page or a missing fetch_page would acquire now (GetAvailableFrameId: *)
(* the head of the free list, else the replacer's victim) has pin_count 0. *)
EvictionSafety ==
    LET a == GetAvailableFrameId(bpm)
    IN a.ok => /\ a.frame_id \in Frames
               /\ pages_[a.frame_id].pin_count = 0

(* C1 happens: the free list is empty, one frame is pinned, and the        *)
(* replacer hands out another one, which held a page that is now replaced. *)
EvictionSafetyWitness ==
    /\ free_list_ = <<>>
    /\ \E f \in Frames : Pinned(f)
    /\ GetAvailableFrameId(bpm).ok
    /\ next_page_id_ > pool_size_

(* C2. new_page returns nullptr exactly when every frame is pinned, and a   *)
(* page it returns has pin_count 1.                                        *)
NewPageNoneIffAllPinned ==
    LET r == NewPage(bpm)
    IN /\ (~r.ret) <=> AllPinned
       /\ r.ret => /\ r.s.pages[r.frame].pin_count = 1
                   /\ r.s.pages[r.frame].page_id = r.page_id

(* C2 happens: all frames are pinned after a frame was reused, and new_page *)
(* returns nullptr.                                                        *)
NewPageNoneWitness ==
    /\ AllPinned
    /\ ~NewPage(bpm).ret
    /\ next_page_id_ > pool_size_

(* C6, as claimed. Page-table consistency after any sequence of calls:     *)
(* page_table_[p] = f exactly when frame f holds page p, and no two keys   *)
(* map to the same frame.                                                  *)
PageTableConsistent ==
    /\ \A p \in PageIds, f \in Frames :
          (p \in DOMAIN page_table_ /\ page_table_[p] = f) <=> (pages_[f].page_id = p)
    /\ \A p, q \in DOMAIN page_table_ : page_table_[p] = page_table_[q] => p = q
    /\ DOMAIN page_table_ \subseteq PageIds

(* C6, amended: the same, after any sequence of calls in which fetch_page   *)
(* was given only page ids that new_page had returned.                     *)
PageTableConsistentAllocated ==
    ~fetched_unallocated =>
        /\ PageTableConsistent
        /\ \A p \in DOMAIN page_table_ : p < next_page_id_

(* C6 happens: a frame was reused for a later page and another page was    *)
(* deleted, so entries were erased and installed.                          *)
PageTableConsistentWitness ==
    /\ ~fetched_unallocated
    /\ \E p \in DOMAIN page_table_ : p >= pool_size_
    /\ free_list_ # <<>>
    /\ Len(free_list_) < pool_size_

InFreeList(f) == \E i \in 1 .. Len(free_list_) : free_list_[i] = f

InPageTable(f) == \E p \in DOMAIN page_table_ : page_table_[p] = f

(* C7, as claimed. After any sequence of calls the free list and the value *)
(* set of the page table partition the frames: each frame is in exactly    *)
(* one of them, exactly once.                                              *)
FreeListPageTablePartition ==
    \A f \in Frames :
       /\ InFreeList(f) <=> ~InPageTable(f)
       /\ Cardinality({i \in 1 .. Len(free_list_) : free_list_[i] = f}) <= 1
       /\ Cardinality({p \in DOMAIN page_table_ : page_table_[p] = f}) <= 1

(* C7, amended: the same, after any sequence of calls in which fetch_page   *)
(* was given only page ids that new_page had returned.                     *)
FreeListPageTablePartitionAllocated ==
    ~fetched_unallocated =>
        /\ FreeListPageTablePartition
        /\ Len(free_list_) + Cardinality(DOMAIN page_table_) = pool_size_

(* C7 happens: a deleted page's frame is back in the free list behind its  *)
(* old place, while another frame holds a page.                            *)
FreeListPageTablePartitionWitness ==
    /\ ~fetched_unallocated
    /\ free_list_ # <<>>
    /\ Head(free_list_) \in DOMAIN node_store_
    /\ page_table_ # << >>

(* The effects of a call that change a frame's page id, bytes or page-table *)
(* entry                                                                   *)
ReuseEffects == {"Erase", "ResetMemory", "ReadPage", "SetPageId", "Insert"}

WrittenBackFirst(call) ==
    LET f == call.acquired
        ev == call.s.events
        w == <<"WritePage", pages_[f].page_id, pages_[f].data>>
    IN (f # NoFrame /\ pages_[f].is_dirty) =>
          /\ pages_[f].page_id \in PageIds
          /\ \E i \in 1 .. Len(ev) :
                /\ ev[i] = w
                /\ \A j \in 1 .. Len(ev) : ev[j][1] \in ReuseEffects => i < j
          /\ call.s.disk[pages_[f].page_id] = pages_[f].data

(* C4. Dirty write-back ordering: in every reachable state, if the frame    *)
(* that new_page or a missing fetch_page acquires holds a dirty page p, the *)
(* call writes p with the frame's current bytes to the disk before it       *)
(* erases the page-table entry, resets or reads into the frame or sets its  *)
(* page id, and the disk holds those bytes when the call returns.          *)
DirtyWriteBackBeforeReuse ==
    /\ WrittenBackFirst(NewPage(bpm))
    /\ \A p \in AnyPageId : WrittenBackFirst(DoFetchPage(bpm, p))

(* C4 happens: the free list is empty and the replacer's victim is dirty    *)
(* with bytes that differ from the disk's copy of its page.                *)
DirtyWriteBackWitness ==
    LET a == GetAvailableFrameId(bpm)
    IN /\ a.ok /\ ~a.from_free
       /\ pages_[a.frame_id].is_dirty
       /\ pages_[a.frame_id].page_id \in PageIds
       /\ pages_[a.frame_id].data # disk[pages_[a.frame_id].page_id]

WriteBackStep(f) ==
    \/ \E p \in PageIds : GetPage(bpm, p) = f /\ FlushPage(bpm, p).ret /\ DoFlush(p)
    \/ DoFlushAll

ResetStep(f) ==
    \/ NewPage(bpm).acquired = f /\ DoNewPage
    \/ \E p \in PageIds : DoFetchPage(bpm, p).acquired = f /\ DoFetch(p)
    \/ \E p \in PageIds : GetPage(bpm, p) = f /\ DeletePage(bpm, p).ret /\ DoDelete(p)

(* C5, as claimed. A frame's dirty flag goes from true to false only in a   *)
(* step that writes the frame's page back (flush_page, flush_all_pages, or  *)
(* the write-back at reuse) or resets the frame (reuse, delete_page): never *)
(* in an unpin_page.                                                       *)
DirtyClearedOnlyByWriteBackOrReset ==
    [][\A f \in Frames :
          (pages_[f].is_dirty /\ ~pages_'[f].is_dirty) => (WriteBackStep(f) \/ ResetStep(f))]_vars

(* C8, as claimed. unpin_page returns false when the page is not resident  *)
(* or its pin count is 0, and a call that returns false changes nothing.   *)
UnpinFalseChangesNothing ==
    [][\A p \in AnyPageId, d \in BOOLEAN :
          DoUnpin(p, d) =>
             LET r == UnpinPage(bpm, p, d)
                 f == GetPage(bpm, p)
             IN /\ (f = NoFrame \/ pages_[f].pin_count = 0) => ~r.ret
                /\ ~r.ret => UNCHANGED vars]_vars

(* C9. delete_page(p): true and nothing changes when p is not resident;     *)
(* false and nothing changes when p is resident and pinned; otherwise true, *)
(* p leaves the page table and its frame is appended to the free list with  *)
(* page_id INVALID, pin_count 0 and is_dirty false.                        *)
DeletePageContract ==
    \A p \in AnyPageId :
       LET r == DeletePage(bpm, p)
           f == GetPage(bpm, p)
       IN /\ f = NoFrame => r.ret /\ Fields(r.s) = bpm
          /\ (f # NoFrame /\ pages_[f].pin_count > 0) => ~r.ret /\ Fields(r.s) = bpm
          /\ (f # NoFrame /\ pages_[f].pin_count <= 0) =>
                /\ r.ret
                /\ p \notin DOMAIN r.s.page_table
                /\ r.s.free_list = Append(free_list_, f)
                /\ r.s.pages[f].page_id = INVALID_PAGE_ID
                /\ r.s.pages[f].pin_count = 0
                /\ r.s.pages[f].is_dirty = FALSE
                /\ \A g \in Frames \ {f} : r.s.pages[g] = pages_[g]

(* C9 happens: one page is resident and pinned, so its delete is refused,   *)
(* and the frame of a deleted page is in the free list, reset.             *)
DeletePageWitness ==
    /\ \E p \in DOMAIN page_table_ : Pinned(page_table_[p]) /\ ~DeletePage(bpm, p).ret
    /\ \E f \in Frames :
          /\ InFreeList(f)
          /\ f \in DOMAIN node_store_
          /\ pages_[f] = [page_id |-> INVALID_PAGE_ID, pin_count |-> 0,
                          is_dirty |-> FALSE, data |-> ZeroPage]

(* C10, as claimed. The replacer holds no node for a frame of the free list, *)
(* and its size is the number of frames that hold a page with pin_count 0.  *)
ReplacerHasNoNodeForFreedFrame ==
    /\ \A f \in Frames : InFreeList(f) => f \notin DOMAIN node_store_
    /\ Size(bpm) = Cardinality({f \in Frames : pages_[f].page_id # INVALID_PAGE_ID
                                               /\ pages_[f].pin_count = 0})

(* C3, as claimed. Round trip: a successful fetch_page(p) returns a frame   *)
(* whose bytes are the bytes last written into p, by clients that create    *)
(* pages with new_page, write through a guard and unpin with the guard's    *)
(* dirty flag; whether or not p was evicted and reloaded in between.       *)
RoundTrip ==
    [][\A g \in Guards, p \in PageIds :
          (GFetch(g, p) /\ DoFetchPage(bpm, p).ret) =>
              pages_'[DoFetchPage(bpm, p).frame].data = content[p]]_vars

-----------------------------------------------------------------------------
(* Properties of the replacer *)

Evictable == {f \in DOMAIN node_store_ : node_store_[f].is_evictable_}

Infinity == ULONG_MAX

(* Backward K-distance of frame f at time t, from the K most recent        *)
(* accesses the node keeps (newest first)                                  *)
BackwardKDistance(f, t) ==
    LET h == node_store_[f].history_
    IN IF Len(h) < k_ THEN Infinity ELSE t - h[k_]

(* Every order in which the frames of S can be visited *)
Orders(S) ==
    {o \in [1 .. Cardinality(S) -> S] : \A i, j \in 1 .. Cardinality(S) : o[i] = o[j] => i = j}

(* C11. LRU-K victim selection: for every K and every stream of calls,     *)
(* Evict returns an evictable node of largest backward K-distance at the   *)
(* current time, whatever the order in which node_store_ is visited,       *)
(* erases that node and decrements Size by 1; with no evictable node it    *)
(* returns false and changes no node.                                      *)
EvictLargestKDistance ==
    LET r == Evict(bpm)
        t == current_timestamp_
        first == [is_first |-> TRUE, val |-> 0, frame_id |-> NoFrame, curr_node |-> LRUKNode]
    IN IF Evictable = {}
       THEN /\ ~r.ok
            /\ r.s.node_store = node_store_
            /\ Size(r.s) = Size(bpm)
       ELSE /\ r.ok
            /\ r.frame_id \in Evictable
            /\ \A g \in Evictable : BackwardKDistance(g, t) <= BackwardKDistance(r.frame_id, t)
            /\ \A o \in Orders(DOMAIN node_store_) :
                   EvictScan(node_store_, o, t, first).frame_id = r.frame_id
            /\ r.s.node_store = MapErase(node_store_, r.frame_id)
            /\ Size(r.s) = Size(bpm) - 1

(* C11 happens: a node with K accesses and a more recently used node with  *)
(* fewer are both evictable, with a third node that is not.                *)
EvictLargestKDistanceWitness ==
    /\ k_ >= 2
    /\ \E f, g \in Evictable :
          /\ Len(node_store_[f].history_) = k_
          /\ Len(node_store_[g].history_) < k_
          /\ Front(node_store_[g]) > Front(node_store_[f])
          /\ Evict(bpm).frame_id = g
    /\ \E f \in DOMAIN node_store_ : f \notin Evictable

(* The nodes that have fewer than K accesses recorded *)
InfiniteDistance == {f \in Evictable : Len(node_store_[f].history_) < k_}

(* The least recent access a node keeps *)
Earliest(f) == node_store_[f].history_[Len(node_store_[f].history_)]

(* C12. Eviction tie-break: when two or more evictable nodes have fewer    *)
(* than K accesses (K >= 2), Evict returns the one of them whose earliest  *)
(* recorded access is the oldest.                                          *)
TieBreakByEarliestAccess ==
    (k_ >= 2 /\ Cardinality(InfiniteDistance) >= 2) =>
        /\ Evict(bpm).frame_id \in InfiniteDistance
        /\ \A g \in InfiniteDistance : Earliest(Evict(bpm).frame_id) <= Earliest(g)

(* C17. RecordAccess fails for every frame id outside [0, num_frames),     *)
(* num_frames itself included, and creates no node for it: after any calls *)
(* every node of the replacer is for a frame id of [0, num_frames).        *)
RecordAccessRejectsOutOfRange ==
    \A f \in DOMAIN node_store_ : f \in 0 .. (replacer_size_ - 1)

(* C18. Replacer size: after any calls of RecordAccess, SetEvictable,      *)
(* Remove and Evict, Size is the number of evictable nodes; SetEvictable   *)
(* of an unknown frame or with the flag it has, and Remove of an unknown   *)
(* or non-evictable frame, leave Size as it is.                            *)
SizeCountsEvictable ==
    /\ Size(bpm) = Cardinality(Evictable)
    /\ \A f \in FrameArgs, b \in BOOLEAN :
          (f \notin DOMAIN node_store_ \/ node_store_[f].is_evictable_ = b) =>
              Size(SetEvictable(bpm, f, b)) = Size(bpm)
    /\ \A f \in FrameArgs :
          f \notin Evictable => Size(Remove(bpm, f)) = Size(bpm)

(* C18 happens: after an eviction or removal took a node away, an          *)
(* evictable node and a non-evictable one are left.                        *)
SizeCountsEvictableWitness ==
    /\ Size(bpm) = 1
    /\ Cardinality(DOMAIN node_store_) = 2
    /\ current_timestamp_ >= 4

-----------------------------------------------------------------------------
(* Properties of the page guards *)

Owners(f) == {g \in Guards : guards[g].page_ = f}

(* C13. Page guards unpin exactly once: after any creations, moves and     *)
(* drops of guards, each frame's pin count is the number of guards that    *)
(* own it, so every pin a guard took is given back once, a guard that owns *)
(* nothing unpins nothing, and with no guard left every pin count is back  *)
(* at 0.                                                                   *)
GuardsUnpinExactlyOnce ==
    \A f \in Frames : pages_[f].pin_count = Cardinality(Owners(f))

(* C13 happens: two guards own the same page, a second page came and went, *)
(* so a move-assignment between them releases one pin of two.              *)
GuardsUnpinExactlyOnceWitness ==
    /\ \E f \in Frames : Cardinality(Owners(f)) = 2 /\ pages_[f].pin_count = 2
    /\ next_page_id_ >= 2

-----------------------------------------------------------------------------
(* Properties of the threads that share a page *)

(* C14. Concurrent pin accounting: under every interleaving of the         *)
(* threads' calls on the shared page, its pin count is the number of pins  *)
(* handed out minus the number of unpins that returned true, which is the  *)
(* number of threads holding a pin, and its frame is evictable in the      *)
(* replacer exactly when that count is 0.                                  *)
PinAccounting ==
    SharedPage \in DOMAIN page_table_ =>
        LET f == page_table_[SharedPage]
        IN /\ pages_[f].pin_count = threads.fetches - threads.unpins
           /\ pages_[f].pin_count = Cardinality({t \in Threads : threads.holds[t]})
           /\ f \in DOMAIN node_store_
           /\ node_store_[f].is_evictable_ <=> (pages_[f].pin_count = 0)
           /\ Size(bpm) = (IF pages_[f].pin_count = 0 THEN 1 ELSE 0)

(* C14 happens: every thread holds a pin on the shared page, after at      *)
(* least one pin was given back.                                           *)
PinAccountingWitness ==
    /\ SharedPage \in DOMAIN page_table_
    /\ pages_[page_table_[SharedPage]].pin_count = NumThreads
    /\ threads.unpins >= 1

-----------------------------------------------------------------------------
(* Properties of FlushPage among concurrent calls *)

(* C15. flush_page is ordered with the other operations: when it writes    *)
(* to disk under id p, the frame it reads holds page p, and when it clears *)
(* the dirty flag, that frame still holds p and its bytes are the ones on  *)
(* disk under p.                                                           *)
FlushPageOrdered ==
    [][/\ (flusher.pc = "write" /\ flusher'.pc = "clear") =>
             pages_[flusher.page].page_id = flusher.page_id
       /\ (flusher.pc = "clear" /\ flusher'.pc = "idle") =>
             /\ pages_[flusher.page].page_id = flusher.page_id
             /\ pages_[flusher.page].data = disk[flusher.page_id]]_vars

(* C16. After FlushAllPages, run with no other call in between, every      *)
(* frame that holds a page is clean and the disk has its bytes, whether    *)
(* the page's id came from new_page or only from fetch_page.               *)
FlushAllLeavesNothingDirty ==
    LET s == FlushAllPages(bpm)
    IN \A f \in Frames :
          s.pages[f].page_id # INVALID_PAGE_ID =>
              /\ ~s.pages[f].is_dirty
              /\ s.disk[s.pages[f].page_id] = s.pages[f].data

-----------------------------------------------------------------------------
(* Properties of the frames the replacer hands out *)

(* A node the replacer kept for a frame that holds no page *)
StaleNode(f) == f \in DOMAIN node_store_ /\ pages_[f].page_id = INVALID_PAGE_ID

(* C19, as claimed. Every frame that Evict hands to NewPage or DoFetchPage holds a     *)
(* resident page (its page id is valid and the page table maps it to the   *)
(* frame) and is not in the free list; while a frame with a node left      *)
(* behind by DeletePage holds no page, the free list is not empty, so the  *)
(* replacer is not asked and the node is not chosen.                       *)
EvictedFrameIsResident ==
    LET a == GetAvailableFrameId(bpm)
    IN /\ (a.ok /\ ~a.from_free) =>
             /\ pages_[a.frame_id].page_id # INVALID_PAGE_ID
             /\ GetPage(bpm, pages_[a.frame_id].page_id) = a.frame_id
             /\ ~InFreeList(a.frame_id)
       /\ \A f \in Frames : StaleNode(f) => (InFreeList(f) /\ a.from_free)

(* C19, amended: the same, after any sequence of calls in which fetch_page  *)
(* was given only page ids that new_page had returned.                     *)
EvictedFrameIsResidentAllocated ==
    ~fetched_unallocated => EvictedFrameIsResident

(* C19 happens: the free list is empty and the replacer hands out a frame  *)
(* whose node goes back to a page that was deleted from it (the page it    *)
(* holds was pinned once, the node has two accesses).                      *)
EvictedFrameIsResidentWitness ==
    LET a == GetAvailableFrameId(bpm)
    IN /\ ~fetched_unallocated
       /\ a.ok /\ ~a.from_free
       /\ Len(node_store_[a.frame_id].history_) = 2
       /\ pages_[a.frame_id].page_id = MaxPages - 1
       /\ current_timestamp_ = MaxPages

-----------------------------------------------------------------------------
(* Properties of the trie *)

(* The nodes of a trie other than its root that have no value and no child *)
EmptyNodes(root) ==
    {q \in DOMAIN root :
        q # << >> /\ root[q] = NoValue /\ \A c \in Chars : (q \o <<c>>) \notin DOMAIN root}

(* The tries that Put calls build: no such node, and a root that is null   *)
(* or has a value or a child                                               *)
BuiltByPut(root) ==
    root = nullptr \/ (EmptyNodes(root) = {} /\ (root[<< >>] # NoValue \/ ~ChildrenEmpty(root)))

(* C20. Trie::Remove prunes empty nodes: for a trie built by Put calls and *)
(* any key, the trie Remove returns has no node other than the root with   *)
(* neither value nor child, no value under the removed key, and the value  *)
(* it had under every other key.                                           *)
RemovePrunesEmptyNodes ==
    BuiltByPut(root_) =>
        \A key \in Keys :
            LET r == TrieRemove(root_, key)
            IN /\ EmptyNodes(r) = {}
               /\ Get(r, key) = NoValue
               /\ \A other \in Keys \ {key} : Get(r, other) = Get(root_, other)

====
